---- MODULE Spec2Model ----
(***************************************************************************)
(* A model of the diff-to-findings pipeline of github-copilot-guardrails:  *)
(*   PRScanner.scan_pr        (src/src/scanner.py)                         *)
(*   SecurityScanner.scan     (src/src/security_rules.py)                  *)
(*   StandardsChecker         (src/src/standards_checker.py)               *)
(*   LicenseChecker.scan      (src/src/license_checker.py)                 *)
(*   PolicyEngine             (src/src/policy_engine.py)                   *)
(*   the action label and the audit record (src/test_integration.py,       *)
(*   src/src/audit_logger.py)                                              *)
(*                                                                         *)
(* Python values are modelled structurally.  A str is a TLA+ string, a     *)
(* list is a sequence, a dict is a function whose DOMAIN is its key set    *)
(* (so a missing key is a key that is not in the DOMAIN), and a value that *)
(* is not a dict is the record NotADict.  An exception is the name of its  *)
(* class in the field "raised" of the outcome of a call.                   *)
(***************************************************************************)
EXTENDS Integers, Sequences, FiniteSets, TLC

VARIABLES
    pc,              \* the position of the caller: "policy", "labelled",
                     \* "logged" | "scanning", "returned", "secured" |
                     \* "rules", "rules_security", "rules_done" |
                     \* "license", "license_done" | "reuse" | "merge",
                     \* "merged" | "standardised"
    config,          \* the dict handed to PolicyEngine(config)
    engine,          \* the PolicyEngine object: NoEngine, or [built, mode]
    ctor_raised,     \* what PolicyEngine.__init__ raised: "none" | "ValueError"
    issues,          \* the caller's finding list (test_integration.py `findings`)
    result,          \* the last apply_policy call: its argument and its outcome
    scenario,        \* the lines of a fixed diff text; <<>> for any text
    n,               \* number of lines of diff.split('\n') read so far
    line,            \* scan_pr: the loop variable (the line read last)
    current_file,    \* scan_pr local
    line_number,     \* scan_pr local
    added_lines,     \* scan_pr local, and its return value
    prev,            \* current_file, line_number, len(added_lines) before
                     \* the last loop iteration
    last_header,     \* history: path of the last `+++ b/<path>` line read
    git_open,        \* history: a `diff --git` line was read and no
                     \* `+++ b/<path>` line after it
    hunk_base,       \* history: the value the counter was last set to, by
                     \* a `+++ b/<path>` line (0) or a hunk header (its start)
    hunk_records,    \* history: records emitted since the counter was set
    hunk_lines,      \* history: lines read since the counter was set that
                     \* are added lines or context/blank lines
    security_findings, \* the result of SecurityScanner.scan
    file_data,    \* the list of items handed to the scan of a rule set
    std_config,      \* the dict handed to StandardsChecker(config)
    standards,       \* the StandardsChecker object: NoChecker, or
                     \* [built, enabled]
    standards_findings, \* the result of StandardsChecker.scan
    scan_raised,     \* what the last scan of a rule set raised, or "none"
    github_api,      \* the collaborator of LicenseChecker
    license_findings, \* the result of LicenseChecker.scan
    api_calls,       \* the calls LicenseChecker.scan made on github_api
    flags0,          \* history: the enable flags the configuration carried
                     \* when the rule sets were constructed
    action_label,    \* test_integration.py `action`; "none" before
    audit_log,       \* the records AuditLogger.log_scan has written
    calls,           \* scan_pr calls completed on the same diff text
    first_parse,     \* what the first of them returned
    remembered,      \* history: an earlier apply_policy call of the engine
    rule_results     \* the result lists of the three rule sets

policy_vars == <<config, engine, ctor_raised, issues, result>>

scan_vars == <<scenario, n, line, current_file, line_number, added_lines, prev,
               last_header, git_open, hunk_base, hunk_records, hunk_lines,
               security_findings>>

rules_vars == <<file_data, std_config, standards, standards_findings,
                scan_raised>>

license_vars == <<github_api, license_findings, api_calls, flags0>>

audit_vars == <<action_label, audit_log>>

reuse_vars == <<calls, first_parse, remembered>>

\* What the policy engine and the parser leave alone.
aux_vars == <<rules_vars, license_vars, audit_vars, reuse_vars, rule_results>>

vars == <<pc, config, engine, ctor_raised, issues, result, scenario, n, line,
          current_file, line_number, added_lines, prev, last_header, git_open,
          hunk_base, hunk_records, hunk_lines, security_findings,
          file_data, std_config, standards, standards_findings,
          scan_raised, github_api, license_findings, api_calls, flags0,
          action_label, audit_log, calls, first_parse, remembered,
          rule_results>>

-----------------------------------------------------------------------------
(* Bounds of the model. *)

MaxIssues == 3      \* longest finding list handed to apply_policy
MaxLines == 6       \* longest diff, in lines
MaxChanges == 2     \* longest list of items handed to a rule set
MaxFiles == 2       \* most files get_files returns
MaxReuseLines == 3  \* longest diff parsed twice, in lines
MaxReuseIssues == 2 \* longest list handed to an engine called repeatedly

-----------------------------------------------------------------------------
(* Python helpers. *)

None == "None"

EmptyDict == [k \in {} |-> ""]

\* A list item that is not a dict (here: a str).
NotADict == [pytype |-> "str"]

isinstance_dict(x) == "pytype" \notin DOMAIN x

\* A value of a 'content' key that is not a str (the int 5), written as a
\* reserved string, and isinstance(x, str) for a value x of that key.
IntContent == "<int 5>"

isinstance_str(x) == x # IntContent

\* dict.get(key, default)
Get(d, key, default) == IF key \in DOMAIN d THEN d[key] ELSE default

Min(S) == CHOOSE m \in S : \A k \in S : m <= k

-----------------------------------------------------------------------------
(* PolicyEngine *)

valid_modes == {"ADVISORY", "WARNING", "BLOCKING"}

NoEngine == [built |-> FALSE]

\* The StandardsChecker object before construction.
NoChecker == [built |-> FALSE]

\* No collaborator of LicenseChecker yet.
NoApi == [has_config |-> FALSE]

\* No apply_policy call yet.
NoCall == [arg |-> <<>>, out |-> [raised |-> "nocall"]]

\* The configurations tried: each valid mode, two invalid ones, and two
\* configurations that supply no mode.
Configs ==
    {[mode |-> m] : m \in valid_modes \cup {"STRICT", "blocking"}}
        \cup {EmptyDict, [rules |-> "standards"]}

\* Faulty variant: the default is BLOCKING.
InitModeDefaultBlocking(cfg) == Get(cfg, "mode", "BLOCKING")

\* Line 17: the mode __init__ stores in self.mode.
InitMode(cfg) == Get(cfg, "mode", "WARNING")

\* PolicyEngine.__init__: the outcome of the constructor.
PolicyEngineInit(cfg) ==
    IF InitMode(cfg) \notin valid_modes
    THEN [raised |-> "ValueError"]
    ELSE [raised |-> "none", mode |-> InitMode(cfg)]

\* The findings handed to the engine: well-formed ones (a dict with a
\* severity), a dict without a severity, and an item that is not a dict.
Finding(sev, msg) == [severity |-> sev, message |-> msg]

GoodFindings ==
    {Finding("CRITICAL", "m1"), Finding("CRITICAL", "m2"), Finding("HIGH", "m1"),
     Finding("MEDIUM", "m1"), Finding("LOW", "m1"), Finding("INFO", "m1")}

NoSeverity == [message |-> "m1"]

PolicyItems == GoodFindings \cup {NoSeverity, NotADict}

\* Lines 38-42: the index of the first item that fails validation, 0 if none.
BadItem(x) == ~isinstance_dict(x) \/ "severity" \notin DOMAIN x

FirstBad(iss) ==
    IF \E i \in 1..Len(iss) : BadItem(iss[i])
    THEN Min({i \in 1..Len(iss) : BadItem(iss[i])})
    ELSE 0

\* Line 48: the condition of the list comprehension.
WarningFilter(issue) == issue.severity \in {"CRITICAL", "HIGH"}

\* Faulty variant: the WARNING filter keeps CRITICAL findings only.
FilterIssuesCriticalOnly(mode, iss) ==
    IF mode = "WARNING"
    THEN SelectSeq(iss, LAMBDA issue : issue.severity = "CRITICAL")
    ELSE iss

\* Lines 44-52: filtered_issues.
FilterIssues(mode, iss) ==
    IF mode = "WARNING" THEN SelectSeq(iss, WarningFilter) ELSE iss

\* Faulty variant: HIGH findings block too.
BlockMergeHigh(mode, filtered_issues) ==
    mode = "BLOCKING"
        /\ \E i \in 1..Len(filtered_issues) :
              filtered_issues[i].severity \in {"CRITICAL", "HIGH"}

\* Faulty variant: only the first finding of the list is examined.
BlockMergeFirstOnly(mode, filtered_issues) ==
    mode = "BLOCKING"
        /\ filtered_issues # <<>>
        /\ filtered_issues[1].severity = "CRITICAL"

\* Lines 54-56.
BlockMerge(mode, filtered_issues) ==
    mode = "BLOCKING"
        /\ \E i \in 1..Len(filtered_issues) :
              filtered_issues[i].severity = "CRITICAL"

\* Faulty variant: invalid items are skipped instead of rejected.
apply_policy_skip_bad(mode, iss) ==
    LET good == SelectSeq(iss, LAMBDA x : ~BadItem(x)) IN
    [raised |-> "none",
     post_comment |-> TRUE,
     block_merge |-> BlockMerge(mode, FilterIssues(mode, good)),
     filtered_issues |-> FilterIssues(mode, good)]

\* PolicyEngine.apply_policy: the outcome of a call on an engine in `mode`.
apply_policy(mode, iss) ==
    IF FirstBad(iss) # 0
    THEN [raised |-> IF isinstance_dict(iss[FirstBad(iss)])
                     THEN "ValueError" ELSE "TypeError"]
    ELSE IF mode \notin valid_modes
    THEN [raised |-> "RuntimeError"]
    ELSE [raised |-> "none",
          post_comment |-> TRUE,
          block_merge |-> BlockMerge(mode, FilterIssues(mode, iss)),
          filtered_issues |-> FilterIssues(mode, iss)]

\* The state of the scanner while the policy engine is exercised, and back.
ScanIdle ==
    /\ scenario = <<>> /\ n = 0 /\ line = "" /\ current_file = None
    /\ line_number = 0 /\ added_lines = <<>>
    /\ prev = [current_file |-> None, line_number |-> 0, emitted |-> 0]
    /\ last_header = None /\ git_open = FALSE
    /\ hunk_base = 0 /\ hunk_records = 0 /\ hunk_lines = 0
    /\ security_findings = <<>>

PolicyIdle ==
    /\ config = EmptyDict /\ engine = NoEngine /\ ctor_raised = "none"
    /\ issues = <<>> /\ result = [arg |-> <<>>, out |-> [raised |-> "nocall"]]

\* The state of the rule sets, of the audit log and of the histories while
\* another part of the pipeline is exercised.
RulesIdle ==
    /\ file_data = <<>> /\ std_config = EmptyDict /\ standards = NoChecker
    /\ standards_findings = <<>> /\ scan_raised = "none"

LicenseIdle ==
    /\ github_api = NoApi /\ license_findings = <<>> /\ api_calls = <<>>
    /\ flags0 = EmptyDict

AuditIdle == action_label = "none" /\ audit_log = <<>>

ReuseIdle == calls = 0 /\ first_parse = <<>> /\ remembered = NoCall

MergeIdle == rule_results = <<>>

AuxIdle == RulesIdle /\ LicenseIdle /\ AuditIdle /\ ReuseIdle /\ MergeIdle

InitPolicy ==
    /\ pc = "policy"
    /\ config \in Configs
    /\ engine = NoEngine
    /\ ctor_raised = "none"
    /\ issues = <<>>
    /\ result = [arg |-> <<>>, out |-> [raised |-> "nocall"]]
    /\ ScanIdle
    /\ AuxIdle

\* policy = PolicyEngine(policy_config)
Construct ==
    /\ pc = "policy"
    /\ engine = NoEngine /\ ctor_raised = "none"
    /\ LET r == PolicyEngineInit(config) IN
         /\ ctor_raised' = r.raised
         /\ engine' = IF r.raised = "none"
                       THEN [built |-> TRUE, mode |-> r.mode]
                       ELSE NoEngine
    /\ UNCHANGED <<pc, config, issues, result, scan_vars, aux_vars>>

\* findings.extend(...): the caller's list grows by one item.
AddFinding ==
    /\ pc = "policy"
    /\ engine.built
    /\ Len(issues) < MaxIssues
    /\ \E f \in PolicyItems : issues' = Append(issues, f)
    /\ UNCHANGED <<pc, config, engine, ctor_raised, result, scan_vars, aux_vars>>

\* policy_result = policy.apply_policy(findings)
ApplyPolicy ==
    /\ pc = "policy"
    /\ engine.built
    /\ result' = [arg |-> issues, out |-> apply_policy(engine.mode, issues)]
    /\ UNCHANGED <<pc, config, engine, ctor_raised, issues, scan_vars, aux_vars>>

\* A label that looks at the filtered list first (a variant of ActionLabel).
ActionLabelWarnFirst(policy_result) ==
    IF policy_result.filtered_issues # <<>> THEN "WARNED"
    ELSE IF policy_result.block_merge THEN "BLOCKED"
    ELSE "APPROVED"

\* action = "BLOCKED" if should_block else ("WARNED" if filtered else "APPROVED")
ActionLabel(policy_result) ==
    IF policy_result.block_merge THEN "BLOCKED"
    ELSE IF policy_result.filtered_issues # <<>> THEN "WARNED"
    ELSE "APPROVED"

\* log_data of AuditLogger.log_scan, without its timestamp; the line written
\* is json.dumps(log_data).
LogData(pr_number, commit_sha, findings, policy_action) ==
    [pr_number |-> pr_number,
     commit_sha |-> commit_sha,
     findings |-> findings,
     policy_action |-> policy_action]

\* The label is derived from the Decision of the call just made.
DeriveAction ==
    /\ pc = "policy"
    /\ result.out.raised = "none"
    /\ result.arg = issues
    /\ action_label' = ActionLabel(result.out)
    /\ pc' = "labelled"
    /\ UNCHANGED <<policy_vars, scan_vars, audit_log, rules_vars,
                   license_vars, reuse_vars, rule_results>>

\* audit.log_scan(str(pr_number), commit_sha, findings, action): the line is
\* appended to the log file, or the write fails with an OSError.
LogScan ==
    /\ pc = "labelled"
    /\ \E written \in BOOLEAN :
          audit_log' =
             IF written
             THEN Append(audit_log,
                         LogData("1", "abc123def456", issues, action_label))
             ELSE audit_log
    /\ pc' = "logged"
    /\ UNCHANGED <<policy_vars, scan_vars, action_label, rules_vars,
                   license_vars, reuse_vars, rule_results>>

NextPolicy == Construct \/ AddFinding \/ ApplyPolicy \/ DeriveAction \/ LogScan

SpecPolicy == InitPolicy /\ [][NextPolicy]_vars

-----------------------------------------------------------------------------
(* Claims about PolicyEngine, checked under SpecPolicy. *)

Returned == result.out.raised = "none"

HasCritical(iss) == \E i \in 1..Len(iss) : iss[i].severity = "CRITICAL"

\* C1: for every finding list that passes validation and every mode,
\* block_merge is true iff the mode is BLOCKING and some finding is CRITICAL;
\* in BLOCKING mode appending a non-CRITICAL finding leaves block_merge as it
\* is and appending a CRITICAL finding never turns it from true to false.
C1_BlockIffBlockingCritical ==
    Returned =>
        /\ result.out.block_merge
              = (engine.mode = "BLOCKING" /\ HasCritical(result.arg))
        /\ engine.mode = "BLOCKING" =>
              \A f \in GoodFindings :
                 LET more == apply_policy(engine.mode, Append(result.arg, f)) IN
                 /\ more.raised = "none"
                 /\ f.severity # "CRITICAL" =>
                       more.block_merge = result.out.block_merge
                 /\ f.severity = "CRITICAL" =>
                       (result.out.block_merge => more.block_merge)

\* A BLOCKING call that blocks on a list holding a CRITICAL finding after a
\* non-CRITICAL one.
C1_Witness ==
    /\ Returned /\ engine.mode = "BLOCKING" /\ result.out.block_merge
    /\ Len(result.arg) = 2
    /\ result.arg[1].severity = "LOW" /\ result.arg[2].severity = "CRITICAL"

\* The positions of a list the WARNING filter keeps.
KeptBy(mode, iss) ==
    IF mode = "WARNING"
    THEN {i \in 1..Len(iss) : iss[i].severity \in {"CRITICAL", "HIGH"}}
    ELSE 1..Len(iss)

\* sub is what remains of iss when exactly the positions in keep are kept,
\* in their order.
IsSelection(sub, iss, keep) ==
    /\ Len(sub) = Cardinality(keep)
    /\ \A k \in 1..Len(sub) :
          \E i \in keep :
             /\ Cardinality({j \in keep : j < i}) = k - 1
             /\ sub[k] = iss[i]

\* C2: filtered_issues is an order-preserving subsequence of the input: the
\* whole input in ADVISORY and BLOCKING, exactly the CRITICAL and HIGH
\* findings in their input order in WARNING.
C2_FilteredIsSubsequence ==
    Returned =>
        /\ IsSelection(result.out.filtered_issues, result.arg,
                       KeptBy(engine.mode, result.arg))
        /\ engine.mode \in {"ADVISORY", "BLOCKING"} =>
              result.out.filtered_issues = result.arg

\* A WARNING call that drops the middle finding of three and keeps two.
C2_Witness ==
    /\ Returned /\ engine.mode = "WARNING"
    /\ Len(result.arg) = 3
    /\ result.arg[1].severity = "HIGH" /\ result.arg[2].severity = "LOW"
    /\ result.arg[3].severity = "CRITICAL"
    /\ result.out.filtered_issues = <<result.arg[1], result.arg[3]>>

\* C3: a call on a list that holds an item without a severity, at any
\* position, raises a validation error and returns no Decision.
C3_MissingSeverityRaises ==
    (result.out.raised # "nocall"
        /\ \E i \in 1..Len(result.arg) : "severity" \notin DOMAIN result.arg[i])
    => /\ result.out.raised \in {"ValueError", "TypeError"}
       /\ DOMAIN result.out = {"raised"}

\* A call that fails on an item without severity that follows two valid ones.
C3_Witness ==
    /\ result.out.raised = "ValueError"
    /\ Len(result.arg) = 3
    /\ result.arg[3] = NoSeverity
    /\ ~BadItem(result.arg[1]) /\ ~BadItem(result.arg[2])

Constructed == engine.built \/ ctor_raised # "none"

\* C4 as stated: construction succeeds only for a configuration that
\* supplies one of the three modes, and the engine's mode is never a default.
C4_Original ==
    engine.built =>
        /\ "mode" \in DOMAIN config
        /\ config.mode \in valid_modes
        /\ engine.mode = config.mode

\* C4, amended: construction succeeds exactly when the configuration
\* supplies no mode or one of the three modes; a mode outside the three is
\* rejected with ValueError; with no mode supplied the engine's mode is the
\* default WARNING, and a supplied mode is never replaced.
C4_DefaultsToWarning ==
    Constructed =>
        /\ engine.built <=>
              ("mode" \notin DOMAIN config \/ config.mode \in valid_modes)
        /\ ~engine.built <=> ctor_raised = "ValueError"
        /\ engine.built =>
              engine.mode = IF "mode" \in DOMAIN config
                            THEN config.mode ELSE "WARNING"

\* An engine built from a configuration without a mode.
C4_Witness ==
    /\ engine.built /\ "mode" \notin DOMAIN config /\ engine.mode = "WARNING"

-----------------------------------------------------------------------------
(* Strings: str.startswith, indexing, and the pieces of the regular        *)
(* expressions the scanners use, matched the way re.match / re.search do.  *)

startswith(s, p) == Len(s) >= Len(p) /\ SubSeq(s, 1, Len(p)) = p

\* The character of s at position i (1-based), "" outside s.
At(s, i) == IF 1 <= i /\ i <= Len(s) THEN SubSeq(s, i, i) ELSE ""

OccursAt(s, sub, i) ==
    /\ 1 <= i
    /\ i + Len(sub) - 1 <= Len(s)
    /\ SubSeq(s, i, i + Len(sub) - 1) = sub

Digits == {"0", "1", "2", "3", "4", "5", "6", "7", "8", "9"}

DigitValue(c) ==
    CASE c = "0" -> 0 [] c = "1" -> 1 [] c = "2" -> 2 [] c = "3" -> 3
      [] c = "4" -> 4 [] c = "5" -> 5 [] c = "6" -> 6 [] c = "7" -> 7
      [] c = "8" -> 8 [] c = "9" -> 9

\* int(s) for a string of decimal digits.
RECURSIVE int(_)
int(s) ==
    IF Len(s) = 0 THEN 0
    ELSE 10 * int(SubSeq(s, 1, Len(s) - 1)) + DigitValue(At(s, Len(s)))

\* \d+ from position i: the position after the longest run of digits.
RECURSIVE DigitsEnd(_, _)
DigitsEnd(s, i) == IF At(s, i) \in Digits THEN DigitsEnd(s, i + 1) ELSE i

\* (?:,\d+)? from position i: the position after it (i when it is absent).
OptCount(s, i) ==
    IF At(s, i) = "," /\ DigitsEnd(s, i + 1) > i + 1
    THEN DigitsEnd(s, i + 1)
    ELSE i

\* re.match(r'\+\+\+ b/(.+)', line)
FileHeaderMatch(s) == startswith(s, "+++ b/") /\ Len(s) > Len("+++ b/")

FileHeaderGroup1(s) == SubSeq(s, Len("+++ b/") + 1, Len(s))

\* re.match(r'@@ -\d+(?:,\d+)? \+(\d+)(?:,\d+)? @@', line): the positions of
\* the new start (group 1) and whether the whole pattern matches.
HunkStartPos(s) == OptCount(s, DigitsEnd(s, Len("@@ -") + 1)) + Len(" +")

HunkHeaderMatch(s) ==
    LET p1 == DigitsEnd(s, Len("@@ -") + 1)
        p2 == OptCount(s, p1)
        p3 == HunkStartPos(s)
        p4 == DigitsEnd(s, p3)
        p5 == OptCount(s, p4)
    IN /\ startswith(s, "@@ -")
       /\ p1 > Len("@@ -") + 1
       /\ OccursAt(s, " +", p2)
       /\ p4 > p3
       /\ OccursAt(s, " @@", p5)

HunkHeaderGroup1(s) == SubSeq(s, HunkStartPos(s), DigitsEnd(s, HunkStartPos(s)) - 1)

-----------------------------------------------------------------------------
(* PRScanner.scan_pr *)

\* The branch of the if/elif chain of the loop body that a line takes.
Branch(s) ==
    IF startswith(s, "diff --git") THEN "diff"
    ELSE IF startswith(s, "+++")
         THEN (IF FileHeaderMatch(s) THEN "file" ELSE "file_nomatch")
    ELSE IF startswith(s, "@@")
         THEN (IF HunkHeaderMatch(s) THEN "hunk" ELSE "hunk_nomatch")
    ELSE IF startswith(s, "+") /\ ~startswith(s, "+++") THEN "added"
    ELSE IF ~startswith(s, "-") THEN "context"
    ELSE "removed"

\* current_file after the loop body ran on line s.
\* Faulty variant: `diff --git` does not unset the current file.
NextCurrentFileNoReset(cf, s) ==
    IF Branch(s) = "file" THEN FileHeaderGroup1(s) ELSE cf

NextCurrentFile(cf, s) ==
    CASE Branch(s) = "diff" -> None
      [] Branch(s) = "file" -> FileHeaderGroup1(s)
      [] OTHER -> cf

\* line_number after the loop body ran on line s.
\* Faulty variant: a header that does not match counts as a context line.
NextLineNumberCountsMalformed(num, s) ==
    CASE Branch(s) = "file" -> 0
      [] Branch(s) = "hunk" -> int(HunkHeaderGroup1(s))
      [] Branch(s) \in {"added", "context", "file_nomatch", "hunk_nomatch"}
            -> num + 1
      [] OTHER -> num

\* Faulty variant: a hunk header sets the counter to its start minus one.
NextLineNumberZeroBased(num, s) ==
    CASE Branch(s) = "file" -> 0
      [] Branch(s) = "hunk" /\ int(HunkHeaderGroup1(s)) > 0
            -> int(HunkHeaderGroup1(s)) - 1
      [] Branch(s) = "hunk" -> 0
      [] Branch(s) \in {"added", "context"} -> num + 1
      [] OTHER -> num

\* Faulty variant: an added line does not increment the counter.
NextLineNumberAddedNotCounted(num, s) ==
    CASE Branch(s) = "file" -> 0
      [] Branch(s) = "hunk" -> int(HunkHeaderGroup1(s))
      [] Branch(s) = "context" -> num + 1
      [] OTHER -> num

\* Faulty variant: a removed line increments the counter too.
NextLineNumberCountsRemoved(num, s) ==
    CASE Branch(s) = "file" -> 0
      [] Branch(s) = "hunk" -> int(HunkHeaderGroup1(s))
      [] Branch(s) \in {"added", "context", "removed"} -> num + 1
      [] OTHER -> num

NextLineNumber(num, s) ==
    CASE Branch(s) = "file" -> 0
      [] Branch(s) = "hunk" -> int(HunkHeaderGroup1(s))
      [] Branch(s) \in {"added", "context"} -> num + 1
      [] OTHER -> num

\* `if current_file:`
Truthy(cf) == cf # None /\ cf # ""

\* added_lines after the loop body ran on line s.
NextAddedLines(al, cf, num, s) ==
    IF Branch(s) = "added" /\ Truthy(cf)
    THEN Append(al, [filename |-> cf,
                     line_number |-> num,
                     content |-> SubSeq(s, 2, Len(s))])
    ELSE al

\* The lines a diff text is made of here.
DiffLines ==
    {"diff --git a/a b/a",
     "+++ b/a",
     "+++ b/b",
     "+++i",
     "@@ -1,2 +12,3 @@ f",
     "@@ -1 +0,0 @@",
     "@@ -1 +x @@",
     "+password = \"x\"",
     "+x = 1",
     "-x = 1",
     " x = 1",
     ""}

\* Scenario A of the specification, as diff.split('\n').
ScenarioA ==
    <<"diff --git a/app.py b/app.py",
      "--- a/app.py",
      "+++ b/app.py",
      "@@ -1,2 +1,3 @@",
      " context",
      "+password = \"abc123\"",
      " unchanged",
      "">>

\* What the history variables call a header.
IsGitLine(s) == startswith(s, "diff --git")

IsFileHeader(s) == ~IsGitLine(s) /\ FileHeaderMatch(s)

IsHunkHeader(s) == HunkHeaderMatch(s)

\* What the history variables call an added line, a removed line and a
\* context or blank line, by the first characters of the line alone.
IsAddedLine(s) == startswith(s, "+") /\ ~startswith(s, "+++")

IsRemovedLine(s) == startswith(s, "-")

IsContextLine(s) ==
    /\ ~startswith(s, "diff --git") /\ ~startswith(s, "@@")
    /\ ~startswith(s, "+") /\ ~startswith(s, "-")

InitScan ==
    /\ pc = "scanning"
    /\ scenario \in {<<>>, ScenarioA}
    /\ n = 0 /\ line = "" /\ current_file = None
    /\ line_number = 0 /\ added_lines = <<>>
    /\ prev = [current_file |-> None, line_number |-> 0, emitted |-> 0]
    /\ last_header = None /\ git_open = FALSE
    /\ hunk_base = 0 /\ hunk_records = 0 /\ hunk_lines = 0
    /\ security_findings = <<>>
    /\ PolicyIdle
    /\ AuxIdle

\* The lines the next loop iteration may read.
NextLines ==
    IF scenario # <<>>
    THEN (IF n < Len(scenario) THEN {scenario[n + 1]} ELSE {})
    ELSE (IF n < MaxLines THEN DiffLines ELSE {})

\* One iteration of `for line in diff.split('\n')`.
ScanLine ==
    /\ pc = "scanning"
    /\ \E s \in NextLines :
          /\ line' = s
          /\ n' = n + 1
          /\ prev' = [current_file |-> current_file,
                      line_number |-> line_number,
                      emitted |-> Len(added_lines)]
          /\ current_file' = NextCurrentFile(current_file, s)
          /\ line_number' = NextLineNumber(line_number, s)
          /\ added_lines' = NextAddedLines(added_lines, current_file,
                                           line_number, s)
          /\ last_header' = IF IsFileHeader(s) THEN FileHeaderGroup1(s)
                            ELSE last_header
          /\ git_open' = IF IsGitLine(s) THEN TRUE
                         ELSE IF IsFileHeader(s) THEN FALSE
                         ELSE git_open
          /\ hunk_base' = IF IsFileHeader(s) THEN 0
                          ELSE IF IsHunkHeader(s) THEN int(HunkHeaderGroup1(s))
                          ELSE hunk_base
          /\ hunk_records' =
                IF IsFileHeader(s) \/ IsHunkHeader(s) THEN 0
                ELSE hunk_records + (Len(added_lines') - Len(added_lines))
          /\ hunk_lines' =
                IF IsFileHeader(s) \/ IsHunkHeader(s) THEN 0
                ELSE IF IsAddedLine(s) \/ IsContextLine(s)
                     THEN hunk_lines + 1
                ELSE hunk_lines
    /\ UNCHANGED <<pc, scenario, security_findings, policy_vars, aux_vars>>

\* `return added_lines`: the loop is over (split yields at least one line).
ScanReturn ==
    /\ pc = "scanning"
    /\ n >= 1
    /\ scenario # <<>> => n = Len(scenario)
    /\ pc' = "returned"
    /\ UNCHANGED <<scan_vars, policy_vars, aux_vars>>

-----------------------------------------------------------------------------
(* SecurityScanner *)

Whitespace == {" ", "\t", "\r", "\f"}

Quotes == {"'", "\""}

WordChars ==
    LET w == "abcdefghijklmnopqrstuvwxyzABCDEFGHIJKLMNOPQRSTUVWXYZ0123456789_"
    IN {SubSeq(w, i, i) : i \in 1..Len(w)}

\* \s* from position i: the position after the longest run of whitespace.
RECURSIVE SpaceEnd(_, _)
SpaceEnd(s, i) == IF At(s, i) \in Whitespace THEN SpaceEnd(s, i + 1) ELSE i

\* [^'"]+ from position i: the position after the longest run of characters
\* that are not quotes.
RECURSIVE NonQuoteEnd(_, _)
NonQuoteEnd(s, i) ==
    IF i <= Len(s) /\ At(s, i) \notin Quotes THEN NonQuoteEnd(s, i + 1) ELSE i

\* sub occurs in s at or after position i.
OccursFrom(s, sub, i) == \E j \in i..Len(s) : OccursAt(s, sub, j)

\* (password|api_key|secret|token)\s*=\s*['"][^'"]+['"]
SecretSearch(s) ==
    \E i \in 1..Len(s) :
       \E kw \in {"password", "api_key", "secret", "token"} :
          /\ OccursAt(s, kw, i)
          /\ LET eq == SpaceEnd(s, i + Len(kw))
                 q == SpaceEnd(s, eq + 1)
                 close == NonQuoteEnd(s, q + 1)
             IN /\ At(s, eq) = "="
                /\ At(s, q) \in Quotes
                /\ close > q + 1
                /\ At(s, close) \in Quotes

\* execute\(.*%s|executemany\(.*%s|\.format\(
SqlSearch(s) ==
    \/ \E i \in 1..Len(s) :
          OccursAt(s, "execute(", i) /\ OccursFrom(s, "%s", i + Len("execute("))
    \/ \E i \in 1..Len(s) :
          /\ OccursAt(s, "executemany(", i)
          /\ OccursFrom(s, "%s", i + Len("executemany("))
    \/ OccursFrom(s, ".format(", 1)

\* \beval\(
EvalSearch(s) ==
    \E i \in 1..Len(s) :
       OccursAt(s, "eval(", i) /\ At(s, i - 1) \notin WordChars

\* os\.system\(.*\+|subprocess.*shell=True
CommandSearch(s) ==
    \/ \E i \in 1..Len(s) :
          /\ OccursAt(s, "os.system(", i)
          /\ OccursFrom(s, "+", i + Len("os.system("))
    \/ \E i \in 1..Len(s) :
          /\ OccursAt(s, "subprocess", i)
          /\ OccursFrom(s, "shell=True", i + Len("subprocess"))

\* self.rules, in declaration order.
rules ==
    <<[regex |-> "secret", severity |-> "CRITICAL",
       owasp |-> "A02: Cryptographic Failures", cwe |-> "CWE-798",
       message |-> "Hardcoded secret detected",
       fix |-> "Use environment variables or secure vaults"],
      [regex |-> "sql", severity |-> "CRITICAL",
       owasp |-> "A01: Injection", cwe |-> "CWE-89",
       message |-> "Potential SQL injection vulnerability",
       fix |-> "Use parameterized queries instead of string formatting"],
      [regex |-> "eval", severity |-> "HIGH",
       owasp |-> "A01: Injection", cwe |-> "CWE-94",
       message |-> "Use of eval() function detected",
       fix |-> "Avoid eval(); use safer alternatives like ast.literal_eval()"],
      [regex |-> "command", severity |-> "HIGH",
       owasp |-> "A01: Injection", cwe |-> "CWE-78",
       message |-> "Potential command injection vulnerability",
       fix |-> "Avoid shell=True; use subprocess with list arguments"]>>

\* rule['regex'].search(line)
RuleSearch(rule, s) ==
    CASE rule.regex = "secret" -> SecretSearch(s)
      [] rule.regex = "sql" -> SqlSearch(s)
      [] rule.regex = "eval" -> EvalSearch(s)
      [] rule.regex = "command" -> CommandSearch(s)

\* content.split('\n')
RECURSIVE SplitFrom(_, _, _)
SplitFrom(s, start, i) ==
    IF i > Len(s) THEN <<SubSeq(s, start, Len(s))>>
    ELSE IF At(s, i) = "\n"
         THEN <<SubSeq(s, start, i - 1)>> \o SplitFrom(s, i + 1, i + 1)
    ELSE SplitFrom(s, start, i + 1)

Split(s) == SplitFrom(s, 1, 1)

\* The dict appended for a rule that matches line line_num of the item.
Issue(file_name, line_num, rule) ==
    [file |-> file_name,
     line |-> line_num,
     severity |-> rule.severity,
     type |-> rule.owasp \o " (" \o rule.cwe \o ")",
     message |-> rule.message,
     fix |-> rule.fix]

\* Faulty variant: the loop over the rules ends at the first rule that
\* matches.
RECURSIVE LineIssuesFirstRuleOnly(_, _, _, _)
LineIssuesFirstRuleOnly(file_name, line_num, s, r) ==
    IF r > Len(rules) THEN <<>>
    ELSE IF RuleSearch(rules[r], s)
    THEN <<Issue(file_name, line_num, rules[r])>>
    ELSE LineIssuesFirstRuleOnly(file_name, line_num, s, r + 1)

\* The inner loop over self.rules for one line, from rule r on.
RECURSIVE LineIssues(_, _, _, _)
LineIssues(file_name, line_num, s, r) ==
    IF r > Len(rules) THEN <<>>
    ELSE (IF RuleSearch(rules[r], s)
          THEN <<Issue(file_name, line_num, rules[r])>>
          ELSE <<>>)
         \o LineIssues(file_name, line_num, s, r + 1)

\* The loop over enumerate(content.split('\n'), 1), from line k on.
RECURSIVE ContentIssues(_, _, _)
ContentIssues(file_name, lines, k) ==
    IF k > Len(lines) THEN <<>>
    ELSE LineIssues(file_name, k, lines[k], 1)
         \o ContentIssues(file_name, lines, k + 1)

\* The body of the try block raises before anything is appended: the item
\* is not subscriptable by key, a key is missing, or the content has no
\* split method.
ChangeRaises(change) ==
    \/ ~isinstance_dict(change)
    \/ "content" \notin DOMAIN change
    \/ "file" \notin DOMAIN change
    \/ ~isinstance_str(change["content"])

\* One iteration of `for change in file_changes`, with its try/except.
ChangeIssues(change) ==
    IF ChangeRaises(change) THEN <<>>
    ELSE ContentIssues(change["file"], Split(change["content"]), 1)

\* A scan that an item's fault ends (a variant of scan).
RECURSIVE scan_stops_at_fault(_)
scan_stops_at_fault(file_changes) ==
    IF file_changes = <<>> \/ ChangeRaises(Head(file_changes)) THEN <<>>
    ELSE ChangeIssues(Head(file_changes))
         \o scan_stops_at_fault(Tail(file_changes))

\* SecurityScanner.scan(file_changes)
RECURSIVE scan(_)
scan(file_changes) ==
    IF file_changes = <<>> THEN <<>>
    ELSE ChangeIssues(Head(file_changes)) \o scan(Tail(file_changes))

\* security_findings = security.scan(added_lines)
SecurityScan ==
    /\ pc = "returned"
    /\ security_findings' = scan(added_lines)
    /\ pc' = "secured"
    /\ UNCHANGED <<scenario, n, line, current_file, line_number, added_lines,
                   prev, last_header, git_open, hunk_base, hunk_records,
                   hunk_lines, policy_vars, aux_vars>>

NextScan == ScanLine \/ ScanReturn \/ SecurityScan

SpecScan == InitScan /\ [][NextScan]_vars

-----------------------------------------------------------------------------
(* StandardsChecker *)

\* self.enabled, as StandardsChecker.__init__ reads it from the config.
StandardsEnabled(cfg) ==
    Get(Get(Get(cfg, "rules", EmptyDict), "standards", EmptyDict),
        "enabled", FALSE)

\* The StandardsChecker object after construction.
StandardsCheckerInit(cfg) == [built |-> TRUE, enabled |-> StandardsEnabled(cfg)]

UpperCase ==
    LET w == "ABCDEFGHIJKLMNOPQRSTUVWXYZ"
    IN {SubSeq(w, i, i) : i \in 1..Len(w)}

LowerCase ==
    LET w == "abcdefghijklmnopqrstuvwxyz"
    IN {SubSeq(w, i, i) : i \in 1..Len(w)}

\* ^\s*kw\s+ : the position after the match, 0 when there is none.
KeywordEnd(s, kw) ==
    LET i == SpaceEnd(s, 1) IN
      IF OccursAt(s, kw, i) /\ At(s, i + Len(kw)) \in Whitespace
      THEN SpaceEnd(s, i + Len(kw))
      ELSE 0

\* re.match(r'^\s*def\s+[A-Z]', line)
DefUpperMatch(s) ==
    KeywordEnd(s, "def") > 0 /\ At(s, KeywordEnd(s, "def")) \in UpperCase

\* re.match(r'^\s*class\s+[a-z]', line)
ClassLowerMatch(s) ==
    KeywordEnd(s, "class") > 0 /\ At(s, KeywordEnd(s, "class")) \in LowerCase

\* re.search(r'except\s*:', line)
BareExceptSearch(s) ==
    \E i \in 1..Len(s) :
       OccursAt(s, "except", i) /\ At(s, SpaceEnd(s, i + Len("except"))) = ":"

\* re.match(r'^\s*def\s+.*:', line)
DefMatch(s) ==
    KeywordEnd(s, "def") > 0 /\ OccursFrom(s, ":", KeywordEnd(s, "def"))

\* next_idx >= len(lines) or 'log' not in lines[next_idx], for line k
\* (1-based) of lines.
NoLogAfter(lines, k) ==
    k + 1 > Len(lines) \/ ~OccursFrom(lines[k + 1], "log", 1)

\* self._create_violation(file, line, violation_type, message, fix)
Violation(file_name, line_num, violation_type, message, fix) ==
    [file |-> file_name,
     line |-> line_num,
     severity |-> "MEDIUM",
     type |-> violation_type,
     message |-> message,
     fix |-> fix]

\* The four checks of the loop body, for line k (1-based) of lines.
StandardsLineIssues(file_name, lines, k) ==
    (IF DefUpperMatch(lines[k])
     THEN <<Violation(file_name, k, "naming",
                      "Function name should be snake_case",
                      "Rename function to snake_case")>>
     ELSE <<>>)
    \o (IF ClassLowerMatch(lines[k])
        THEN <<Violation(file_name, k, "naming",
                         "Class name should be PascalCase",
                         "Rename class to PascalCase")>>
        ELSE <<>>)
    \o (IF BareExceptSearch(lines[k])
        THEN <<Violation(file_name, k, "error_handling",
                         "Bare except clause",
                         "Specify exception type or use Exception")>>
        ELSE <<>>)
    \o (IF DefMatch(lines[k]) /\ NoLogAfter(lines, k)
        THEN <<Violation(file_name, k, "missing_logging",
                         "Function missing logging statement",
                         "Add logging statement to function body")>>
        ELSE <<>>)

\* The loop over enumerate(lines), from line k (1-based) on.
RECURSIVE StandardsContentIssues(_, _, _)
StandardsContentIssues(file_name, lines, k) ==
    IF k > Len(lines) THEN <<>>
    ELSE StandardsLineIssues(file_name, lines, k)
         \o StandardsContentIssues(file_name, lines, k + 1)

\* What the body of the try block raises for an item: change.get fails on
\* an item that is not a dict; a missing key is read as ''.
StandardsChangeFault(change) ==
    IF ~isinstance_dict(change) THEN "AttributeError" ELSE "none"

\* One iteration of `for change in file_changes`, with its try/except.
StandardsChangeIssues(change) ==
    IF StandardsChangeFault(change) # "none" THEN <<>>
    ELSE LET file_name == Get(change, "file", "")
             content == Get(change, "content", "")
         IN IF ~isinstance_str(content) THEN <<>>
            ELSE StandardsContentIssues(file_name, Split(content), 1)

\* The loop of StandardsChecker.scan.
RECURSIVE StandardsLoop(_)
StandardsLoop(file_changes) ==
    IF file_changes = <<>> THEN <<>>
    ELSE StandardsChangeIssues(Head(file_changes))
         \o StandardsLoop(Tail(file_changes))

\* StandardsChecker.scan(file_changes) of the checker object self.
standards_scan(self, file_changes) ==
    IF ~self.enabled THEN <<>> ELSE StandardsLoop(file_changes)

-----------------------------------------------------------------------------
(* The Security and Standards rule sets over a list of {file, content}    *)
(* items (test_security_detection.py, sam_integration.py).                 *)

\* The contents of the items: one line or two.
ChangeContents ==
    {"x = 1",
     "password = \"x\"\neval(token = \"x\")",
     "def Foo():\n    log.info(x)",
     "def foo():\nexcept:",
     "class foo:\nos.system(a + b)"}

\* The items: well-formed ones, one without 'file', one without 'content',
\* one whose content is not a str, and one that is not a dict.
ChangeItems ==
    {[file |-> "a.py", content |-> c] : c \in ChangeContents}
    \cup {[file |-> "b.py", content |-> "password = \"x\"\neval(token = \"x\")"],
          [content |-> "def Foo():"],
          [file |-> "a.py"],
          [file |-> "a.py", content |-> IntContent],
          NotADict}

\* The dicts handed to StandardsChecker(config).
StandardsConfigs ==
    {EmptyDict,
     [rules |-> [standards |-> [enabled |-> FALSE]]],
     [rules |-> [standards |-> [enabled |-> TRUE]]],
     [rules |-> [security |-> [enabled |-> FALSE],
                 standards |-> [enabled |-> FALSE]]]}

\* The flag a configuration carries for Security, in the place where
\* Standards reads its own; SecurityScanner.__init__ takes no configuration.
SecurityFlag(cfg) ==
    Get(Get(Get(cfg, "rules", EmptyDict), "security", EmptyDict),
        "enabled", TRUE)

InitRules ==
    /\ pc = "rules"
    /\ file_data = <<>>
    /\ std_config \in StandardsConfigs
    /\ standards = NoChecker
    /\ standards_findings = <<>>
    /\ scan_raised = "none"
    /\ ScanIdle /\ PolicyIdle
    /\ LicenseIdle /\ AuditIdle /\ ReuseIdle /\ MergeIdle

\* self.security_scanner = SecurityScanner()
\* self.standards_checker = StandardsChecker(standards_config)
ConstructStandards ==
    /\ pc = "rules"
    /\ ~standards.built
    /\ standards' = StandardsCheckerInit(std_config)
    /\ flags0' = [security |-> SecurityFlag(std_config),
                  standards |-> StandardsEnabled(std_config)]
    /\ UNCHANGED <<pc, file_data, std_config, standards_findings,
                   scan_raised, scan_vars, policy_vars, github_api,
                   license_findings, api_calls, audit_vars, reuse_vars,
                   rule_results>>

\* The caller changes its config dict after the checker was constructed.
Reconfigure ==
    /\ pc = "rules"
    /\ standards.built
    /\ file_data = <<>>
    /\ \E cfg \in StandardsConfigs \ {std_config} : std_config' = cfg
    /\ UNCHANGED <<pc, file_data, standards, standards_findings,
                   scan_raised, scan_vars, policy_vars, license_vars,
                   audit_vars, reuse_vars, rule_results>>

\* The caller puts one more item into the list it will hand to the scans.
AddChange ==
    /\ pc = "rules"
    /\ standards.built
    /\ Len(file_data) < MaxChanges
    /\ \E c \in ChangeItems : file_data' = Append(file_data, c)
    /\ UNCHANGED <<pc, std_config, standards, standards_findings,
                   scan_raised, scan_vars, policy_vars, license_vars,
                   audit_vars, reuse_vars, rule_results>>

\* security_issues = security_scanner.scan(file_data): every statement of
\* the loop body is inside try/except Exception.
SecurityScanChanges ==
    /\ pc = "rules"
    /\ standards.built
    /\ security_findings' = scan(file_data)
    /\ scan_raised' = "none"
    /\ pc' = "rules_security"
    /\ UNCHANGED <<scenario, n, line, current_file, line_number, added_lines,
                   prev, last_header, git_open, hunk_base, hunk_records,
                   hunk_lines, file_data, std_config, standards,
                   standards_findings, policy_vars, license_vars,
                   audit_vars, reuse_vars, rule_results>>

\* standards_issues = standards_checker.scan(file_data)
StandardsScan ==
    /\ pc = "rules_security"
    /\ standards_findings' = standards_scan(standards, file_data)
    /\ scan_raised' = "none"
    /\ pc' = "rules_done"
    /\ UNCHANGED <<file_data, std_config, standards, scan_vars,
                   policy_vars, license_vars, audit_vars, reuse_vars,
                   rule_results>>

NextRules ==
    \/ ConstructStandards
    \/ Reconfigure
    \/ AddChange
    \/ SecurityScanChanges
    \/ StandardsScan

SpecRules == InitRules /\ [][NextRules]_vars

-----------------------------------------------------------------------------
(* LicenseChecker *)

\* What a call of the collaborator gives when it raises.
ApiRaises == "<raises>"

\* restricted_re = (GPL|AGPL|LGPL)-?\d?\.?\d? : the alternative that matches
\* at position i of s, tried in the order of the pattern; "" when none does.
TokenAt(s, i) ==
    IF OccursAt(s, "GPL", i) THEN "GPL"
    ELSE IF OccursAt(s, "AGPL", i) THEN "AGPL"
    ELSE IF OccursAt(s, "LGPL", i) THEN "LGPL"
    ELSE ""

\* The positions of s where restricted_re matches.
TokenPositions(s) == {i \in 1..Len(s) : TokenAt(s, i) # ""}

\* -?\d?\.?\d? from position i: the position after the match.
VersionEnd(s, i) ==
    LET a == IF At(s, i) = "-" THEN i + 1 ELSE i
        b == IF At(s, a) \in Digits THEN a + 1 ELSE a
        c == IF At(s, b) = "." THEN b + 1 ELSE b
    IN IF At(s, c) \in Digits THEN c + 1 ELSE c

\* restricted_re.search(line): matched, group(1) and group(0) of the
\* leftmost match.
RestrictedSearch(s) ==
    IF TokenPositions(s) = {} THEN [matched |-> FALSE]
    ELSE LET i == Min(TokenPositions(s))
             tok == TokenAt(s, i)
         IN [matched |-> TRUE,
             group1 |-> tok,
             group0 |-> SubSeq(s, i, VersionEnd(s, i + Len(tok)) - 1)]

\* copyright_re.search(line), copyright_re = Copyright \(c\) \d{4}
CopyrightSearch(s) ==
    \E i \in 1..Len(s) :
       /\ OccursAt(s, "Copyright (c) ", i)
       /\ \A k \in 0..3 : At(s, i + Len("Copyright (c) ") + k) \in Digits

\* The dicts appended for a line with a restricted license token.
RestrictedIssue(file, line_num, m) ==
    [file |-> file,
     line |-> line_num,
     severity |-> "HIGH",
     type |-> "restricted_license",
     message |-> "Found restricted license '" \o m.group0 \o "'",
     fix |-> "Replace with MIT, Apache/BSD"]

ConflictIssue(file, line_num) ==
    [file |-> file,
     line |-> line_num,
     severity |-> "HIGH",
     type |-> "license_conflict",
     message |-> "GPL in proprietary project",
     fix |-> "Remove GPL or change project license"]

\* The dict appended for a file without a copyright line.
CopyrightIssue(file) ==
    [file |-> file,
     line |-> 0,
     severity |-> "MEDIUM",
     type |-> "missing_copyright",
     message |-> "Missing copyright header",
     fix |-> "Add 'Copyright (c) <year> <owner>'"]

\* if license_type == 'GPL' and proprietary
Conflict(license_type, proprietary) == license_type = "GPL" /\ proprietary

\* The body of the loop over the lines of a file, for one line.
LicenseLineIssues(file, line_num, s, proprietary) ==
    LET m == RestrictedSearch(s) IN
      IF ~m.matched THEN <<>>
      ELSE <<RestrictedIssue(file, line_num, m)>>
           \o (IF Conflict(m.group1, proprietary)
               THEN <<ConflictIssue(file, line_num)>>
               ELSE <<>>)

\* The loop over enumerate(lines, 1), from line k on.
RECURSIVE LicenseContentIssues(_, _, _, _)
LicenseContentIssues(file, lines, k, proprietary) ==
    IF k > Len(lines) THEN <<>>
    ELSE LicenseLineIssues(file, k, lines[k], proprietary)
         \o LicenseContentIssues(file, lines, k + 1, proprietary)

\* A copyright Finding before the token Findings of its file (a variant of
\* FileIssues).
FileIssuesCopyrightFirst(file, content, proprietary) ==
    IF content = ApiRaises THEN <<>>
    ELSE (IF \E k \in 1..Len(Split(content)) :
                CopyrightSearch(Split(content)[k])
          THEN <<>>
          ELSE <<CopyrightIssue(file)>>)
         \o LicenseContentIssues(file, Split(content), 1, proprietary)

\* One iteration of `for file in files`; content is what get_file_content
\* gave for the file.
FileIssues(file, content, proprietary) ==
    IF content = ApiRaises THEN <<>>
    ELSE LET lines == Split(content)
             has_copyright ==
                \E k \in 1..Len(lines) : CopyrightSearch(lines[k])
         IN LicenseContentIssues(file, lines, 1, proprietary)
            \o (IF has_copyright THEN <<>> ELSE <<CopyrightIssue(file)>>)

\* The loop over files, from file k on.
RECURSIVE FilesIssues(_, _, _)
FilesIssues(api, k, proprietary) ==
    IF k > Len(api.files) THEN <<>>
    ELSE FileIssues(api.files[k], api.contents[api.files[k]], proprietary)
         \o FilesIssues(api, k + 1, proprietary)

\* A scan that does not look at the flag (a variant of LicenseEnabled).
LicenseAlwaysEnabled(api) == TRUE

\* self.github_api.config.get('license_check_enabled', False)
LicenseEnabled(api) == Get(api.config, "license_check_enabled", FALSE)

\* LicenseChecker.scan(): what it raises, what it returns, and the calls it
\* made on the collaborator.
license_scan(api) ==
    IF ~api.has_config
    THEN [raised |-> "AttributeError", issues |-> <<>>, calls |-> <<>>]
    ELSE IF ~LicenseEnabled(api)
    THEN [raised |-> "none", issues |-> <<>>, calls |-> <<>>]
    ELSE IF api.files_raise
    THEN [raised |-> "none", issues |-> <<>>, calls |-> <<"get_files">>]
    ELSE [raised |-> "none",
          issues |-> FilesIssues(api, 1, api.proprietary = "True"),
          calls |-> <<"get_files", "is_proprietary">>
                    \o [k \in 1..Len(api.files) |-> "get_file_content"]]

\* The files of the repository (MockGitHubAPI.get_files), and what
\* get_file_content gives for one of them.
LicenseFiles == <<"app.py", "config.py", "test.py">>

FileContents ==
    {"# Sample file content",
     "Copyright (c) 2024 X\n# GPL-3.0",
     "# AGPL-3.0",
     "# LGPL\nCopyright (c) 2024",
     "GPLv2 or LGPL-2.1\nCopyright (c) 202",
     ApiRaises}

\* The config attribute of the collaborator.
ApiConfigs ==
    {EmptyDict,
     [license_check_enabled |-> FALSE],
     [license_check_enabled |-> TRUE]}

\* The collaborators whose calls return: a config, an answer (or an
\* exception) of is_proprietary, the first k files and their contents.
ApisWithFiles ==
    UNION {{[has_config |-> TRUE, config |-> cfg, files_raise |-> FALSE,
             files |-> SubSeq(LicenseFiles, 1, k), proprietary |-> p,
             contents |-> c] :
               cfg \in ApiConfigs, p \in {"True", "False", ApiRaises},
               c \in [{LicenseFiles[i] : i \in 1..k} -> FileContents]} :
           k \in 0..MaxFiles}

\* The collaborators whose get_files raises, and the ones without a config
\* attribute (GitHubAPI, MockGitHubAPI).
ApisFailing ==
    {[has_config |-> h, config |-> cfg, files_raise |-> r,
      files |-> <<>>, proprietary |-> "False", contents |-> EmptyDict] :
        h \in BOOLEAN, r \in BOOLEAN, cfg \in ApiConfigs}
    \ {a \in [has_config : BOOLEAN, config : ApiConfigs,
              files_raise : BOOLEAN, files : {<<>>},
              proprietary : {"False"}, contents : {EmptyDict}] :
          a.has_config /\ ~a.files_raise}

\* The state after license_checker = LicenseChecker(github_api).
InitLicense ==
    /\ pc = "license"
    /\ github_api \in ApisWithFiles \cup ApisFailing
    /\ flags0 = [license |-> github_api.has_config /\ LicenseEnabled(github_api)]
    /\ license_findings = <<>>
    /\ api_calls = <<>>
    /\ scan_raised = "none"
    /\ file_data = <<>> /\ std_config = EmptyDict /\ standards = NoChecker
    /\ standards_findings = <<>>
    /\ ScanIdle /\ PolicyIdle /\ AuditIdle /\ ReuseIdle /\ MergeIdle

\* The config of the collaborator changes after the checker was constructed.
SetLicenseConfig ==
    /\ pc = "license"
    /\ github_api.has_config
    /\ \E cfg \in ApiConfigs \ {github_api.config} :
          github_api' = [github_api EXCEPT !.config = cfg]
    /\ UNCHANGED <<pc, flags0, license_findings, api_calls, rules_vars,
                   scan_vars, policy_vars, audit_vars, reuse_vars,
                   rule_results>>

\* license_findings = license_checker.scan()
LicenseScan ==
    /\ pc = "license"
    /\ LET out == license_scan(github_api) IN
         /\ license_findings' = out.issues
         /\ api_calls' = out.calls
         /\ scan_raised' = out.raised
    /\ pc' = "license_done"
    /\ UNCHANGED <<github_api, flags0, file_data, std_config, standards,
                   standards_findings, scan_vars, policy_vars, audit_vars,
                   reuse_vars, rule_results>>

NextLicense == SetLicenseConfig \/ LicenseScan

SpecLicense == InitLicense /\ [][NextLicense]_vars

\* The three rule sets, each from its construction.
SpecRuleSets ==
    (InitRules \/ InitLicense) /\ [][NextRules \/ NextLicense]_vars

-----------------------------------------------------------------------------
(* One PRScanner and one PolicyEngine, each called more than once.         *)

\* The locals of scan_pr at the start of a call.
StaleAddedLines == added_lines

NewAddedLines == <<>>

NewCurrentFile == None

NewLineNumber == 0

\* The diff texts parsed twice: up to MaxReuseLines lines of DiffLines.
RECURSIVE DiffsOfLen(_)
DiffsOfLen(k) ==
    IF k = 0 THEN {<<>>}
    ELSE {Append(d, s) : d \in DiffsOfLen(k - 1), s \in DiffLines}

ReuseDiffs == UNION {DiffsOfLen(k) : k \in 1..MaxReuseLines}

\* The finding lists handed to the engine that is called again and again.
ReuseItems ==
    {Finding("CRITICAL", "m1"), Finding("HIGH", "m1"), Finding("LOW", "m1"),
     NoSeverity}

RECURSIVE IssuesOfLen(_)
IssuesOfLen(k) ==
    IF k = 0 THEN {<<>>}
    ELSE {Append(iss, f) : iss \in IssuesOfLen(k - 1), f \in ReuseItems}

ReuseLists == UNION {IssuesOfLen(k) : k \in 0..MaxReuseIssues}

\* scanner = PRScanner(), about to parse a diff text for the first time.
InitReuseScan ==
    /\ pc = "scanning"
    /\ scenario \in ReuseDiffs
    /\ n = 0 /\ line = "" /\ current_file = NewCurrentFile
    /\ line_number = NewLineNumber /\ added_lines = <<>>
    /\ prev = [current_file |-> None, line_number |-> 0, emitted |-> 0]
    /\ last_header = None /\ git_open = FALSE
    /\ hunk_base = 0 /\ hunk_records = 0 /\ hunk_lines = 0
    /\ security_findings = <<>>
    /\ PolicyIdle
    /\ AuxIdle

\* policy = PolicyEngine(policy_config), constructed.
InitReusePolicy ==
    /\ pc = "reuse"
    /\ config \in {cfg \in Configs : PolicyEngineInit(cfg).raised = "none"}
    /\ engine = [built |-> TRUE, mode |-> PolicyEngineInit(config).mode]
    /\ ctor_raised = "none"
    /\ issues = <<>>
    /\ result = NoCall
    /\ ScanIdle
    /\ AuxIdle

InitReuse == InitReuseScan \/ InitReusePolicy

\* scanner.scan_pr(diff) once more, on the same text: the locals of the new
\* call are set up and the first result is kept for comparison.
ScanAgain ==
    /\ pc = "returned"
    /\ calls = 0
    /\ scenario # <<>>
    /\ calls' = 1
    /\ first_parse' = added_lines
    /\ pc' = "scanning"
    /\ n' = 0 /\ line' = ""
    /\ added_lines' = NewAddedLines
    /\ current_file' = NewCurrentFile
    /\ line_number' = NewLineNumber
    /\ prev' = [current_file |-> NewCurrentFile,
                line_number |-> NewLineNumber,
                emitted |-> Len(NewAddedLines)]
    /\ last_header' = None /\ git_open' = FALSE
    /\ hunk_base' = 0 /\ hunk_records' = 0 /\ hunk_lines' = 0
    /\ UNCHANGED <<scenario, security_findings, policy_vars, remembered,
                   rules_vars, license_vars, audit_vars, rule_results>>

\* filtered_issues is the list the caller handed in (it is not: list(issues)
\* and the comprehension build a new list).
FilteredIsInput(mode) == FALSE

\* policy.apply_policy(findings) on a list of the caller; the history
\* variable keeps this call or the one it kept before.
ApplyPolicyAgain ==
    /\ pc = "reuse"
    /\ \E iss \in ReuseLists :
          /\ issues' = iss
          /\ result' = [arg |-> iss, out |-> apply_policy(engine.mode, iss)]
    /\ remembered' \in {remembered, result'}
    /\ UNCHANGED <<pc, config, engine, ctor_raised, scan_vars, calls,
                   first_parse, rules_vars, license_vars, audit_vars,
                   rule_results>>

\* findings.append(...) after the call returned: the caller's list grows,
\* and so does every list that is the same object.
AppendAfterCall ==
    /\ pc = "reuse"
    /\ result.out.raised = "none"
    /\ issues = result.arg
    /\ \E f \in ReuseItems :
          /\ issues' = Append(issues, f)
          /\ result' = IF FilteredIsInput(engine.mode)
                       THEN [result EXCEPT !.out.filtered_issues = issues']
                       ELSE result
    /\ UNCHANGED <<pc, config, engine, ctor_raised, scan_vars, reuse_vars,
                   rules_vars, license_vars, audit_vars, rule_results>>

NextReuse ==
    \/ ScanLine
    \/ ScanReturn
    \/ ScanAgain
    \/ ApplyPolicyAgain
    \/ AppendAfterCall

SpecReuse == InitReuse /\ [][NextReuse]_vars

\* ---------------------------------------------------------------------
\* The orchestrator's merge of the three result lists
\* (test_integration.py:60-86, main.py:52-67): `findings` starts empty and
\* is extended by the result list of each rule set, then handed to
\* apply_policy.  The order in which the three lists are appended is the
\* order in which the rule sets complete.

MaxPerRuleSet == 2

\* Findings each rule set produces (its own dict shape and type strings).
SecurityPool == {Issue("a.py", 1, rules[1]), Issue("a.py", 2, rules[3])}

StandardsPool ==
    {Violation("a.py", 1, "naming",
               "Function name should be snake_case",
               "Rename function to snake_case")}

LicensePool ==
    {RestrictedIssue("app.py", 1, RestrictedSearch("# GPL-3.0")),
     CopyrightIssue("app.py")}

ListsOver(pool) ==
    UNION {[1..k -> pool] : k \in 0..MaxPerRuleSet}

\* The six orders in which three rule sets can complete.
Orders ==
    {o \in [1..3 -> 1..3] : \A i, j \in 1..3 : o[i] = o[j] => i = j}

\* findings = []; findings.extend(...) three times, in the order o.
Extend(results, o) ==
    results[o[1]] \o results[o[2]] \o results[o[3]]

InitMerge ==
    /\ pc = "merge"
    /\ config \in {cfg \in Configs : PolicyEngineInit(cfg).raised = "none"}
    /\ engine = [built |-> TRUE, mode |-> PolicyEngineInit(config).mode]
    /\ ctor_raised = "none"
    /\ issues = <<>>
    /\ result = NoCall
    /\ rule_results \in
          {<<a, b, c>> : a \in ListsOver(SecurityPool),
                         b \in ListsOver(StandardsPool),
                         c \in ListsOver(LicensePool)}
    /\ ScanIdle /\ RulesIdle /\ LicenseIdle /\ AuditIdle /\ ReuseIdle

\* One run of steps 4 and 6 of the pipeline over the same three result
\* lists, completed in some order; the run before it is remembered.
MergeAndApply ==
    /\ pc \in {"merge", "merged"}
    /\ \E o \in Orders :
          /\ issues' = Extend(rule_results, o)
          /\ result' = [arg |-> issues',
                        out |-> apply_policy(engine.mode, issues')]
    /\ remembered' = result
    /\ pc' = "merged"
    /\ UNCHANGED <<config, engine, ctor_raised, scan_vars, calls,
                   first_parse, rules_vars, license_vars, audit_vars,
                   rule_results>>

NextMerge == MergeAndApply

SpecMerge == InitMerge /\ [][NextMerge]_vars

\* ---------------------------------------------------------------------
\* The pipeline from the parser into the rule sets
\* (test_integration.py:37-76): the records scan_pr returns are handed, as
\* they are, to SecurityScanner.scan and then to StandardsChecker.scan.

MaxPipelineLines == 4

\* Diff lines whose added text the Standards rules look at.
PipelineLines ==
    {"+++ b/a",
     "@@ -1,2 +12,3 @@ f",
     "+def foo():",
     "+def Foo():",
     "+    log.info(x)",
     " x = 1"}

RECURSIVE PipelineDiffsOfLen(_)
PipelineDiffsOfLen(k) ==
    IF k = 0 THEN {<<>>}
    ELSE {Append(d, s) : d \in PipelineDiffsOfLen(k - 1), s \in PipelineLines}

PipelineDiffs == UNION {PipelineDiffsOfLen(k) : k \in 1..MaxPipelineLines}

\* Step 1 is done: the scanner and the checker exist, the diff is fetched.
InitPipeline ==
    /\ pc = "scanning"
    /\ scenario \in PipelineDiffs
    /\ n = 0 /\ line = "" /\ current_file = NewCurrentFile
    /\ line_number = NewLineNumber /\ added_lines = <<>>
    /\ prev = [current_file |-> None, line_number |-> 0, emitted |-> 0]
    /\ last_header = None /\ git_open = FALSE
    /\ hunk_base = 0 /\ hunk_records = 0 /\ hunk_lines = 0
    /\ security_findings = <<>>
    /\ std_config \in StandardsConfigs
    /\ standards = StandardsCheckerInit(std_config)
    /\ file_data = <<>> /\ standards_findings = <<>>
    /\ scan_raised = "none"
    /\ PolicyIdle /\ LicenseIdle /\ AuditIdle /\ ReuseIdle /\ MergeIdle

\* standards_findings = standards.scan(added_lines)
StandardsScanRecords ==
    /\ pc = "secured"
    /\ standards.built
    /\ standards_findings' = standards_scan(standards, added_lines)
    /\ pc' = "standardised"
    /\ UNCHANGED <<file_data, std_config, standards, scan_raised, scan_vars,
                   policy_vars, license_vars, audit_vars, reuse_vars,
                   rule_results>>

NextPipeline ==
    \/ ScanLine
    \/ ScanReturn
    \/ SecurityScan
    \/ StandardsScanRecords

SpecPipeline == InitPipeline /\ [][NextPipeline]_vars

-----------------------------------------------------------------------------
(* The whole model: every component, each from its start. *)

Init == InitPolicy \/ InitScan \/ InitRules \/ InitLicense \/ InitReuse
            \/ InitMerge \/ InitPipeline

Next == NextPolicy \/ NextScan \/ NextRules \/ NextLicense \/ NextReuse
            \/ NextMerge \/ NextPipeline

Spec == Init /\ [][Next]_vars

-----------------------------------------------------------------------------
(* Claims about scan_pr and SecurityScanner.scan, checked under SpecScan. *)

\* The last loop iteration emitted a record.
Emitted == Len(added_lines) = prev.emitted + 1

LastRecord == added_lines[Len(added_lines)]

\* The records emitted since the counter was last set by a header.
HunkTail == (Len(added_lines) - hunk_records + 1)..Len(added_lines)

\* C5: if parse emits an AddedLine whose content matches the
\* hardcoded-credential rule, Security scan of the records parse returned
\* holds at least one CRITICAL Finding.
C5_CredentialLineIsCritical ==
    pc = "secured" =>
        ((\E i \in 1..Len(added_lines) : SecretSearch(added_lines[i].content))
            => \E j \in 1..Len(security_findings) :
                  security_findings[j].severity = "CRITICAL")

\* C6: every Finding Security scan produces from the records of parse
\* carries the file and line_number of the AddedLine that matched, and in
\* Scenario A there is exactly one: CRITICAL, 'Hardcoded secret detected',
\* file app.py, line 2.
C6_FindingCarriesFileAndLine ==
    pc = "secured" =>
        /\ \A j \in 1..Len(security_findings) :
              \E i \in 1..Len(added_lines) :
                 /\ security_findings[j].file = added_lines[i].filename
                 /\ security_findings[j].line = added_lines[i].line_number
        /\ scenario = ScenarioA =>
              /\ added_lines = <<[filename |-> "app.py", line_number |-> 2,
                                  content |-> "password = \"abc123\""]>>
              /\ Len(security_findings) = 1
              /\ security_findings[1].file = "app.py"
              /\ security_findings[1].line = 2
              /\ security_findings[1].severity = "CRITICAL"
              /\ security_findings[1].message = "Hardcoded secret detected"

\* C7 as stated: for every diff text the line numbers of the records of one
\* file never decrease in emission order.
C7_Original ==
    \A i, j \in 1..Len(added_lines) :
       (i < j /\ added_lines[i].filename = added_lines[j].filename)
          => added_lines[i].line_number <= added_lines[j].line_number

\* C7, amended: the records emitted between two consecutive lines that set
\* the counter (a `+++ b/<path>` header or a well-formed hunk header) all
\* carry the same file and their line numbers increase in emission order;
\* across such a line the numbers of one file can decrease.
C7_IncreasingWithinHunk ==
    /\ hunk_records <= Len(added_lines)
    /\ \A i, j \in HunkTail :
          i < j =>
             /\ added_lines[i].filename = added_lines[j].filename
             /\ added_lines[i].line_number < added_lines[j].line_number

\* Two records in the current hunk, after a record of the same file with a
\* larger line number.
C7_Witness ==
    /\ hunk_records = 2
    /\ Len(added_lines) >= 3
    /\ added_lines[1].filename = LastRecord.filename
    /\ added_lines[1].line_number > LastRecord.line_number

\* C8 as stated: every record has a line number of at least 1.
C8_Original ==
    \A i \in 1..Len(added_lines) : added_lines[i].line_number >= 1

\* C8, amended: every record has a non-negative line number, at least the
\* value the counter was last set to (the new start the most recent hunk
\* header declared, or 0 from a `+++ b/<path>` header with no hunk header
\* after it); so it is 0 for an added line right after such a `+++ b/`
\* header or after a hunk header declaring new start 0.
C8_AtLeastHunkStart ==
    /\ \A i \in 1..Len(added_lines) : added_lines[i].line_number \in Nat
    /\ \A i \in HunkTail : added_lines[i].line_number >= hunk_base

\* A record with line number 0, emitted right after a `+++ b/` header.
C8_Witness ==
    /\ Emitted /\ LastRecord.line_number = 0
    /\ prev.line_number = 0 /\ hunk_base = 0 /\ hunk_records = 1

\* C9: between a `diff --git` line and the next `+++ b/<path>` header no
\* record is emitted, and an emitted record carries the path of the most
\* recent `+++ b/<path>` header.
C9_NoRecordWithoutFileHeader ==
    /\ git_open => Len(added_lines) = prev.emitted
    /\ Emitted => (last_header # None /\ LastRecord.filename = last_header)

\* An added line read after `diff --git` with no header yet, in a diff whose
\* previous file section produced a record: it is dropped.
C9_Witness ==
    /\ git_open /\ startswith(line, "+") /\ ~startswith(line, "+++")
    /\ last_header # None /\ Len(added_lines) >= 1
    /\ Len(added_lines) = prev.emitted

\* A line that begins with `@@` or `+++` and is not a well-formed header.
MalformedHeader(s) ==
    \/ startswith(s, "@@") /\ ~HunkHeaderMatch(s)
    \/ startswith(s, "+++") /\ ~FileHeaderMatch(s)

\* C10 as stated: a malformed header is handled as a context line, so the
\* counter is incremented by one.
C10_Original ==
    (n >= 1 /\ MalformedHeader(line)) =>
        /\ Len(added_lines) = prev.emitted
        /\ line_number = prev.line_number + 1

\* C10, amended: a malformed header is skipped: no record is emitted, the
\* current file is kept and the counter is left as it is (not incremented).
C10_MalformedHeaderSkipped ==
    (n >= 1 /\ MalformedHeader(line)) =>
        /\ Len(added_lines) = prev.emitted
        /\ current_file = prev.current_file
        /\ line_number = prev.line_number

\* A malformed header read inside a file section with the counter above 0.
C10_Witness ==
    /\ n >= 1 /\ MalformedHeader(line)
    /\ current_file # None /\ prev.line_number > 0
    /\ line_number = prev.line_number

-----------------------------------------------------------------------------
(* Claims about the Security and Standards rule sets, checked under        *)
(* SpecRules.                                                              *)

\* The concatenation of a sequence of sequences.
RECURSIVE ConcatAll(_)
ConcatAll(seqs) ==
    IF seqs = <<>> THEN <<>> ELSE Head(seqs) \o ConcatAll(Tail(seqs))

\* An item with one of the faults the claim lists: it is not a record, it
\* lacks a key, or its content is not a string.
ListedFault(item) ==
    \/ ~isinstance_dict(item)
    \/ "file" \notin DOMAIN item
    \/ "content" \notin DOMAIN item
    \/ ~isinstance_str(item["content"])

\* An item whose evaluation by Standards faults: Standards reads a missing
\* key as ''.
StandardsFault(item) ==
    \/ ~isinstance_dict(item)
    \/ ("content" \in DOMAIN item /\ ~isinstance_str(item["content"]))

\* What the items of file_data contribute, one by one: nothing when faulty
\* holds of the item, else what alone gives for it.
Contributions(faulty(_), alone(_)) ==
    ConcatAll([i \in 1..Len(file_data) |->
                  IF faulty(file_data[i]) THEN <<>> ELSE alone(file_data[i])])

SecurityAlone(item) == scan(<<item>>)

StandardsAlone(item) == standards_scan(standards, <<item>>)

\* C11 as stated: neither scan raises, an item with a listed fault (missing
\* key, non-string content, not a record) contributes no Finding to either
\* scan, and every other item contributes what it contributes alone.
C11_Original ==
    pc = "rules_done" =>
       /\ scan_raised = "none"
       /\ security_findings = Contributions(ListedFault, SecurityAlone)
       /\ standards_findings = Contributions(ListedFault, StandardsAlone)

\* C11, amended: neither scan raises; an item whose evaluation faults
\* contributes no Finding and every other item contributes exactly the
\* Findings it contributes when evaluated alone, where the faults of
\* Security are a missing key, a non-string content and an item that is not
\* a record, and the faults of Standards are a non-string content and an item
\* that is not a record: Standards reads a missing key as '', so an item
\* without 'file' contributes its Findings with file ''.
C11_FaultyItemsAreSkipped ==
    pc = "rules_done" =>
       /\ scan_raised = "none"
       /\ security_findings = Contributions(ListedFault, SecurityAlone)
       /\ standards_findings = Contributions(StandardsFault, StandardsAlone)
       /\ \A i \in 1..Len(file_data) :
             /\ ListedFault(file_data[i]) => SecurityAlone(file_data[i]) = <<>>
             /\ StandardsFault(file_data[i])
                   => StandardsAlone(file_data[i]) = <<>>

\* A faulting item is followed by an item that contributes to both scans.
C11_Witness ==
    /\ pc = "rules_done"
    /\ standards.enabled
    /\ Len(file_data) = 2
    /\ ~isinstance_dict(file_data[1])
    /\ security_findings # <<>>
    /\ standards_findings # <<>>
    /\ security_findings = SecurityAlone(file_data[2])
    /\ standards_findings = StandardsAlone(file_data[2])

-----------------------------------------------------------------------------
(* Claims about the three rule sets, checked under SpecRuleSets and        *)
(* SpecLicense.                                                            *)

\* The flag of the collaborator's config as it is now.
LicenseFlagNow ==
    /\ github_api.has_config
    /\ "license_check_enabled" \in DOMAIN github_api.config
    /\ github_api.config["license_check_enabled"]

\* C12 as stated: each of the three rule sets has an enable flag fixed when
\* it is constructed, and a rule set whose flag was off then returns an
\* empty list, License without calling its collaborator.
C12_Original ==
    /\ pc = "rules_done" =>
          /\ ~flags0.security => security_findings = <<>>
          /\ ~flags0.standards => standards_findings = <<>>
    /\ pc = "license_done" /\ ~flags0.license =>
          license_findings = <<>> /\ api_calls = <<>>

\* C12, amended: Standards has an enable flag fixed at construction (off
\* unless the configuration turns it on) and with the flag off it returns an
\* empty list for every input; License reads its flag from the config of its
\* collaborator at every scan, and with the flag off at that moment it
\* returns an empty list without calling any method of the collaborator,
\* whatever the flag was at construction; Security has no flag and evaluates
\* its rules whatever the configuration says.
C12_FlagsAsRead ==
    /\ pc = "rules_done" =>
          /\ standards.enabled = flags0.standards
          /\ ~standards.enabled => standards_findings = <<>>
          /\ security_findings = Contributions(ListedFault, SecurityAlone)
    /\ pc = "license_done" /\ github_api.has_config /\ ~LicenseFlagNow =>
          /\ license_findings = <<>>
          /\ api_calls = <<>>
          /\ scan_raised = "none"
    /\ pc = "license_done" /\ LicenseFlagNow /\ ~github_api.files_raise =>
          /\ Len(api_calls) = 2 + Len(github_api.files)
          /\ scan_raised = "none"

\* License scanned with the flag off, after the flag had been on at
\* construction, over a repository whose files would give Findings.
C12_Witness ==
    /\ pc = "license_done"
    /\ flags0.license
    /\ github_api.has_config /\ ~LicenseFlagNow
    /\ Len(github_api.files) = 2
    /\ license_findings = <<>>

\* The scan of License ran over the files of the repository.
LicenseRan ==
    pc = "license_done" /\ LicenseFlagNow /\ ~github_api.files_raise

\* What get_file_content gave for file k of the repository.
ContentOf(k) == github_api.contents[github_api.files[k]]

\* The Findings about license tokens among the Findings of License.
IsTokenFinding(f) == f.type \in {"restricted_license", "license_conflict"}

\* The token Findings of one line when the tokens of strong count as strong
\* copyleft: one restricted-license Finding, and a conflict Finding after it
\* when the project is proprietary and the matched token is strong.
LineTokenFindings(file, j, s, strong) ==
    IF ~RestrictedSearch(s).matched THEN <<>>
    ELSE <<RestrictedIssue(file, j, RestrictedSearch(s))>>
         \o (IF github_api.proprietary = "True"
                /\ RestrictedSearch(s).group1 \in strong
             THEN <<ConflictIssue(file, j)>>
             ELSE <<>>)

\* The same for every line of every file that could be read.
TokenFindings(strong) ==
    ConcatAll([k \in 1..Len(github_api.files) |->
        IF ContentOf(k) = ApiRaises THEN <<>>
        ELSE ConcatAll([j \in 1..Len(Split(ContentOf(k))) |->
                LineTokenFindings(github_api.files[k], j,
                                  Split(ContentOf(k))[j], strong)])])

\* C13: every line with a copyleft token gives one HIGH restricted-license
\* Finding, immediately followed by a HIGH conflict Finding exactly when the
\* project is proprietary and the matched token is GPL or AGPL; LGPL and a
\* project that is not proprietary never give a conflict Finding.
C13_ConflictForStrongCopyleft ==
    LicenseRan =>
       SelectSeq(license_findings, IsTokenFinding)
          = TokenFindings({"GPL", "AGPL"})

\* The Findings of License about file k of the repository, by position.
FindingsOf(k) ==
    {i \in 1..Len(license_findings) :
        license_findings[i].file = github_api.files[k]}

CopyrightFindingsOf(k) ==
    {i \in FindingsOf(k) : license_findings[i].type = "missing_copyright"}

HasCopyrightLine(content) ==
    \E j \in 1..Len(Split(content)) : CopyrightSearch(Split(content)[j])

\* C14: every file whose content could be read has exactly one
\* missing-copyright Finding (MEDIUM, line 0) when none of its lines matches
\* the copyright pattern and none when one does, and that Finding comes
\* after all token Findings of the file; a file whose content could not be
\* read has no Finding, and the files after it are scanned all the same.
C14_OneCopyrightFindingPerFile ==
    LicenseRan =>
       \A k \in 1..Len(github_api.files) :
          IF ContentOf(k) = ApiRaises
          THEN FindingsOf(k) = {}
          ELSE /\ Cardinality(CopyrightFindingsOf(k))
                    = (IF HasCopyrightLine(ContentOf(k)) THEN 0 ELSE 1)
               /\ \A i \in CopyrightFindingsOf(k) :
                     /\ license_findings[i].line = 0
                     /\ license_findings[i].severity = "MEDIUM"
                     /\ \A j \in FindingsOf(k) \ {i} :
                           /\ IsTokenFinding(license_findings[j])
                           /\ j < i

\* The first file could not be read; the second has a license token and no
\* copyright line, and its copyright Finding is the last Finding.
C14_Witness ==
    /\ LicenseRan
    /\ Len(github_api.files) = 2
    /\ ContentOf(1) = ApiRaises
    /\ ContentOf(2) # ApiRaises
    /\ Cardinality(FindingsOf(2)) >= 2
    /\ CopyrightFindingsOf(2) = {Len(license_findings)}

-----------------------------------------------------------------------------
(* Claims about the action label and the audit record, checked under       *)
(* SpecPolicy.                                                             *)

\* C15: the label is BLOCKED exactly when the Decision blocks the merge,
\* WARNED exactly when it does not and the filtered list is not empty,
\* APPROVED exactly when it does not and the filtered list is empty; every
\* audit record carries this label and the whole unfiltered finding list.
C15_LabelFollowsDecision ==
    pc \in {"labelled", "logged"} =>
       /\ action_label \in {"BLOCKED", "WARNED", "APPROVED"}
       /\ action_label = "BLOCKED" <=> result.out.block_merge
       /\ action_label = "WARNED" <=>
             ~result.out.block_merge /\ result.out.filtered_issues # <<>>
       /\ action_label = "APPROVED" <=>
             ~result.out.block_merge /\ result.out.filtered_issues = <<>>
       /\ \A i \in 1..Len(audit_log) :
             /\ audit_log[i].policy_action = action_label
             /\ audit_log[i].findings = result.arg

\* A record was written with the label WARNED and more findings than the
\* filtered list holds.
C15_Witness ==
    /\ pc = "logged"
    /\ Len(audit_log) = 1
    /\ action_label = "WARNED"
    /\ Len(audit_log[1].findings) > Len(result.out.filtered_issues)

-----------------------------------------------------------------------------
(* Claims about repeated calls, checked under SpecReuse.                   *)

-----------------------------------------------------------------------------
(* Claims about line numbers within a hunk, checked under SpecScan.        *)

\* C17: the line number of an emitted record is the value the counter was
\* last set to (the start a well-formed hunk header declares) plus the number
\* of added lines and context or blank lines read between that header and
\* the added line; a removed line never changes the counter; the content of
\* the record is the diff line without its one leading '+'.
C17_NumberIsStartPlusCountedLines ==
    /\ n >= 1 /\ Emitted =>
          /\ LastRecord.line_number = hunk_base + (hunk_lines - 1)
          /\ "+" \o LastRecord.content = line
    /\ n >= 1 /\ IsRemovedLine(line) =>
          /\ line_number = prev.line_number
          /\ ~Emitted

\* The third counted line after a hunk header that declares start 12 is an
\* added line, and lines that are not counted were read as well.
C17_Witness ==
    /\ Emitted
    /\ hunk_base = 12
    /\ hunk_lines = 3
    /\ LastRecord.line_number = 14
    /\ n >= 6

\* C18: a line that begins with @@ and does not match the hunk-header form
\* leaves the counter, the current file and the records as they were.
C18_MalformedHunkHeaderIgnored ==
    n >= 1 /\ startswith(line, "@@") /\ ~HunkHeaderMatch(line) =>
       /\ line_number = prev.line_number
       /\ current_file = prev.current_file
       /\ Len(added_lines) = prev.emitted

\* A malformed hunk header was read inside a hunk, after the counter had
\* moved on from the declared start.
C18_Witness ==
    /\ n >= 1
    /\ startswith(line, "@@") /\ ~HunkHeaderMatch(line)
    /\ Truthy(current_file)
    /\ hunk_base = 12
    /\ line_number > 12
    /\ added_lines # <<>>

-----------------------------------------------------------------------------
(* Claims about the order of the Security Findings, checked under          *)
(* SpecRules.                                                              *)

\* The (item, line, rule) triples of file_data where the rule matches the
\* line; items that fault have none.
ItemMatches(i) ==
    IF ListedFault(file_data[i]) THEN {}
    ELSE LET lines == Split(file_data[i]["content"]) IN
           {t \in {i} \X (1..Len(lines)) \X (1..Len(rules)) :
               RuleSearch(rules[t[3]], lines[t[2]])}

Matches == UNION {ItemMatches(i) : i \in 1..Len(file_data)}

\* Item order, then line order, then the order the rules are declared in.
Before(t, u) ==
    \/ t[1] < u[1]
    \/ t[1] = u[1] /\ t[2] < u[2]
    \/ t[1] = u[1] /\ t[2] = u[2] /\ t[3] < u[3]

\* The position of triple t among the triples M, in that order.
Rank(M, t) == Cardinality({u \in M : Before(u, t)}) + 1

\* C19: the scan returns exactly one Finding per (item, line, rule) triple
\* where the rule matches the line; it carries the file of the item, the
\* 1-based index of the line in the content and the severity, type, message
\* and fix of the rule; the Findings are ordered by item, then by line, then
\* by the declaration order of the rules.
C19_OneFindingPerMatchInOrder ==
    pc \in {"rules_security", "rules_done"} =>
       LET M == Matches IN
         /\ Len(security_findings) = Cardinality(M)
         /\ \A t \in M :
               security_findings[Rank(M, t)] =
                  [file |-> file_data[t[1]]["file"],
                   line |-> t[2],
                   severity |-> rules[t[3]].severity,
                   type |-> rules[t[3]].owasp \o " (" \o rules[t[3]].cwe \o ")",
                   message |-> rules[t[3]].message,
                   fix |-> rules[t[3]].fix]

\* Two items with Findings each, and a line that two rules match.
C19_Witness ==
    /\ pc = "rules_security"
    /\ Len(file_data) = 2
    /\ LET M == Matches IN
         /\ \E t \in M : t[1] = 1
         /\ \E t \in M : t[1] = 2
         /\ \E t, u \in M :
               /\ t[1] = u[1] /\ t[2] = u[2] /\ t[2] = 2 /\ t[3] < u[3]
               /\ Rank(M, u) = Rank(M, t) + 1
               /\ security_findings[Rank(M, t)].severity = "CRITICAL"
               /\ security_findings[Rank(M, u)].severity = "HIGH"

\* ---------------------------------------------------------------------
\* C20

\* The rule set a finding comes from, told by its type string.
FromRuleSet(f) ==
    IF f.type \in {"restricted_license", "license_conflict",
                   "missing_copyright"} THEN 3
    ELSE IF f.type \in {"naming", "error_handling", "missing_logging"} THEN 2
    ELSE 1

Count(sq, f) == Cardinality({i \in 1..Len(sq) : sq[i] = f})

\* The findings of rule set r inside a list, in the order they have there.
Projection(sq, r) ==
    SelectSeq(sq, LAMBDA f : FromRuleSet(f) = r)

RECURSIVE IsSubsequence(_, _)
IsSubsequence(sub, sq) ==
    IF sub = <<>> THEN TRUE
    ELSE IF sq = <<>> THEN FALSE
    ELSE IF Head(sub) = Head(sq) THEN IsSubsequence(Tail(sub), Tail(sq))
    ELSE IsSubsequence(sub, Tail(sq))

Merged == pc = "merged" /\ result.out.raised = "none"

\* C20: two runs over the same three result lists, concatenated in any two
\* of the six orders, give the same block_merge and the same findings with
\* the same multiplicities in filtered_issues, and inside filtered_issues
\* the findings of each rule set appear in the order of that rule set's
\* own list.
C20_DecisionIndependentOfOrder ==
    Merged =>
        /\ \A r \in 1..3 :
              IsSubsequence(Projection(result.out.filtered_issues, r),
                            rule_results[r])
        /\ remembered # NoCall =>
              /\ remembered.out.raised = "none"
              /\ remembered.out.block_merge = result.out.block_merge
              /\ \A f \in SecurityPool \cup StandardsPool \cup LicensePool :
                    Count(remembered.out.filtered_issues, f)
                        = Count(result.out.filtered_issues, f)
              /\ \A r \in 1..3 :
                    Projection(remembered.out.filtered_issues, r)
                        = Projection(result.out.filtered_issues, r)

\* Two BLOCKING runs that append the lists in opposite orders, the
\* CRITICAL finding first in one and last in the other, both block.
C20_Witness ==
    /\ Merged /\ remembered # NoCall
    /\ engine.mode = "BLOCKING"
    /\ Len(rule_results[1]) = 2 /\ Len(rule_results[2]) = 1
    /\ Len(rule_results[3]) = 2
    /\ rule_results[1][1].severity = "CRITICAL"
    /\ result.arg = rule_results[1] \o rule_results[2] \o rule_results[3]
    /\ remembered.arg = rule_results[3] \o rule_results[2] \o rule_results[1]
    /\ result.out.block_merge /\ remembered.out.block_merge

\* ---------------------------------------------------------------------
\* C21

Standardised == pc = "standardised" /\ standards.enabled

\* The records whose one line of content is a function signature.
SignatureRecords ==
    SelectSeq(added_lines, LAMBDA r : DefMatch(r.content))

MissingLoggingFindings ==
    SelectSeq(standards_findings, LAMBDA f : f.type = "missing_logging")

\* C21: when StandardsChecker.scan is given the records scan_pr returned,
\* every signature record yields a missing-logging finding (its content
\* has no following line), in record order, and every finding carries the
\* filename and the line_number of the record it comes from.
C21_FindingsCarryRecordFileAndLine ==
    Standardised =>
        /\ Len(MissingLoggingFindings) = Len(SignatureRecords)
        /\ \A k \in 1..Len(MissingLoggingFindings) :
              k <= Len(SignatureRecords) =>
                 /\ MissingLoggingFindings[k].file
                       = SignatureRecords[k].filename
                 /\ MissingLoggingFindings[k].line
                       = SignatureRecords[k].line_number
        /\ \A j \in 1..Len(standards_findings) :
              \E i \in 1..Len(added_lines) :
                 /\ standards_findings[j].file = added_lines[i].filename
                 /\ standards_findings[j].line = added_lines[i].line_number

\* ---------------------------------------------------------------------
\* C22

\* The line read last is a well-formed hunk header of a file that has a
\* `+++ b/<path>` header, and it declares a positive new start (in
\* DiffLines such a header declares three new-file lines): the line read
\* next is the first line of that hunk.
AtHunkStart ==
    /\ pc = "scanning"
    /\ IsHunkHeader(line)
    /\ hunk_base > 0
    /\ Truthy(current_file)

\* C22: the first line of a hunk of a file with a `+++ b/<path>` header
\* yields exactly one record for that file when its first character is
\* '+', whatever follows the '+' (the content is the rest of the line),
\* keeps the current file and raises the counter by one; a line with
\* another first character yields no record.
C22_PlusLineYieldsOneRecord ==
    [][(AtHunkStart /\ n' = n + 1) =>
          IF startswith(line', "+")
          THEN /\ added_lines' =
                     Append(added_lines,
                            [filename |-> current_file,
                             line_number |-> line_number,
                             content |-> SubSeq(line', 2, Len(line'))])
               /\ current_file' = current_file
               /\ line_number' = line_number + 1
          ELSE added_lines' = added_lines]_vars

====
